---- MODULE Spec2Model ----
(***************************************************************************)
(* Model of src/main.go: the command-line tool that lists the artifacts of *)
(* a repository page by page, sorts them by creation time, downloads the   *)
(* newest one into a temporary file and unzips it into the working         *)
(* directory.                                                              *)
(*                                                                         *)
(* pc is the position of main; exitKind says whether and how the process   *)
(* has ended: "os.Exit" (flag check and log.Fatalf: deferred calls are NOT *)
(* run), "panic" (runtime fault) or "return" (main returned: deferred      *)
(* calls run).  On exit pc keeps the position at which the process ended.  *)
(***************************************************************************)
EXTENDS Integers, Sequences, FiniteSets, TLC

VARIABLES
    pc,          \* position of main
    owner,       \* -owner flag after flag.Parse
    repo,        \* -repo flag after flag.Parse
    page,        \* page cursor of the listing loop
    artifacts,   \* var artifacts []*github.Artifact
    received,    \* listing responses received so far, in receipt order
    net,         \* network requests issued so far, in order
    artifactID,  \* artifactID passed to DownloadArtifact (0: not yet set)
    body,        \* resp.Body of http.Get: the archive served
    bodyOpen,    \* resp.Body obtained and Close() not yet called
    temp,        \* the temporary file: [exists, open, data]
    zipOpen,     \* zipfile obtained and Close() not yet called
    idx,         \* index of the next entry of zipfile.File
    handles,     \* per-entry readers/writers opened and not closed
    defers,      \* stack of deferred calls of main
    cwd,         \* working directory: [dirs, files]
    cwd0,        \* the working directory as it was at process start
    copyErr,     \* an io.Copy into a destination file returned an error
    stderr,      \* messages written to the error stream
    exitKind,    \* "none" | "os.Exit" | "panic" | "return"
    exitStatus   \* process exit status (-1 while running)

vars == <<pc, owner, repo, page, artifacts, received, net, artifactID, body,
          bodyOpen, temp, zipOpen, idx, handles, defers, cwd, cwd0, copyErr,
          stderr, exitKind, exitStatus>>

----------------------------------------------------------------------------
(* Bounds of the model *)

MaxArtifacts == 3   \* artifacts served over all pages
MaxTime == 3        \* creation timestamps are 1..MaxTime
MaxPages == 2       \* listing responses per run

(* Program constants *)

MAX_NUMBER_PER_PAGE == 100

----------------------------------------------------------------------------
(* Helpers *)

Range(s) == {s[i] : i \in 1..Len(s)}

Min(a, b) == IF a < b THEN a ELSE b

Running == exitKind = "none"

Msg(m, d) == [msg |-> m, detail |-> d]

Call(op, arg, ok) == [op |-> op, arg |-> arg, ok |-> ok]

NoBody == [valid |-> FALSE, File |-> <<>>]

NoTemp == [exists |-> FALSE, open |-> FALSE, data |-> "none"]

----------------------------------------------------------------------------
(* Inputs *)

Owners == {"", "niku"}

Repos == {"", "repo"}

ReleaseFlags == {"", "1"}

REVISION == "deadbeef"

VERSION == "0.0.1"

REPOSITORY == "https://github.com/coop-sapporo/get-the-latest-artifact-on-github-action"

\* Stored names of archive entries, as sequences of path components.
Names == {<<"a.txt">>, <<"b", "c.txt">>}

\* The bytes stored for each name.
ContentOf(name) == IF name = <<"a.txt">> THEN <<104, 105>> ELSE <<119>>

Absent == <<-1>>

Dir(name) == SubSeq(name, 1, Len(name) - 1)

\* Working directories the run may start in: with or without directory b.
Cwds == {[dirs |-> d, files |-> [n \in Names |-> Absent]] :
            d \in {{<<>>}, {<<>>, <<"b">>}}}

\* An artifact record of the listing API; ids are unique, the k-th artifact
\* served carries id k.
Artifact(id, t) == [id |-> id, createdAt |-> t]

\* The pages the server may serve when `have` artifacts were served before.
Pages(have) ==
    UNION {{[i \in 1..n |-> Artifact(have + i, ts[i])] : ts \in [1..n -> 1..MaxTime]} :
              n \in 0..Min(MAX_NUMBER_PER_PAGE, MaxArtifacts - have)}

\* The archives the download URL may serve: entries with distinct names.
Archives ==
    UNION {{f \in [1..n -> Names] : \A i, j \in 1..n : f[i] = f[j] => i = j} :
              n \in 0..Cardinality(Names)}

----------------------------------------------------------------------------
(* Pure functions of main.go *)

\* A variant of RequiredParametersMissing that checks the owner only.
RequiredParametersMissing_OwnerOnly(o, r) == o = ""

\* main.go:43-52: some required parameter is empty.
RequiredParametersMissing(o, r) == \E v \in {o, r} : v = ""

\* main.go:137-160: the lines printCodeInfo writes.
printCodeInfo(release) ==
    LET isRelease == release # ""
    IN  <<Msg("==== CODE INFOMATION ====", <<>>)>>
        \o (IF isRelease THEN <<Msg("VERSION: ", <<VERSION>>)>>
                         ELSE <<Msg("VERSION: ", <<VERSION, "-dev">>)>>)
        \o <<Msg("REVISION: ", <<REVISION>>)>>
        \o <<Msg("URL(revision): ", <<REPOSITORY, "/commit/", REVISION>>)>>
        \o (IF isRelease
              THEN <<Msg("URL(tag): ", <<REPOSITORY, "/releases/tag/v", VERSION>>)>>
              ELSE <<>>)

\* A variant of AppendPage that keeps the last page only.
AppendPage_Replace(acc, pg) == pg

\* main.go:70: artifacts = append(artifacts, artifactList.Artifacts...)
AppendPage(acc, pg) == acc \o pg

\* A variant of Less that orders by creation time ascending.
Less_Ascending(a, b) == a.createdAt < b.createdAt

\* main.go:79-81: the less function handed to sort.Slice.
Less(a, b) == a.createdAt > b.createdAt

\* The rearrangements of s.
Rearrangements(s) ==
    {[i \in 1..Len(s) |-> s[f[i]]] :
        f \in {g \in [1..Len(s) -> 1..Len(s)] :
                  \A i, j \in 1..Len(s) : g[i] = g[j] => i = j}}

\* main.go:79: sort.Slice orders s by less and is not stable: the result is
\* some permutation of s in which no element is less than an earlier one;
\* the order of elements that compare equal is not determined.
SortSlice(s) ==
    {r \in Rearrangements(s) : \A i, j \in 1..Len(s) : i < j => ~Less(r[j], r[i])}

\* A variant of Newest that takes the last element.
Newest_Last(s) == s[Len(s)]

\* main.go:84: artifact := artifacts[0]
Newest(s) == s[1]

\* main.go:104-107, 98, 119, 125, 131: the effect of the deferred calls
\* when main returns.
Deferred(d) == d \in Range(defers)

----------------------------------------------------------------------------
(* Initial state: the process has parsed its flags (main.go:34-41) *)

Init ==
    /\ pc = "flags"
    /\ owner \in Owners
    /\ repo \in Repos
    /\ page = 0
    /\ artifacts = <<>>
    /\ received = <<>>
    /\ net = <<>>
    /\ artifactID = 0
    /\ body = NoBody
    /\ bodyOpen = FALSE
    /\ temp = NoTemp
    /\ zipOpen = FALSE
    /\ idx = 0
    /\ handles = 0
    /\ defers = <<>>
    /\ cwd0 \in Cwds
    /\ cwd = cwd0
    /\ copyErr = FALSE
    /\ stderr = <<>>
    /\ exitKind = "none"
    /\ exitStatus = -1

\* log.Fatalf (main.go:68, 90, 96, 102, 110, 117, 123, 129): writes the
\* message and calls os.Exit(1); deferred calls do not run.
Fatal(m, d) ==
    /\ stderr' = Append(stderr, Msg(m, <<d>>))
    /\ exitKind' = "os.Exit"
    /\ exitStatus' = 1

----------------------------------------------------------------------------
(* Stage 1: parameter resolution, main.go:43-59 *)

ParseFlagsMissing ==
    /\ Running /\ pc = "flags"
    /\ RequiredParametersMissing(owner, repo)
    /\ \E release \in ReleaseFlags :
          stderr' = <<Msg("Parameters owner, repo are required", <<>>),
                      Msg("flag.PrintDefaults", <<>>),
                      Msg("", <<>>)>> \o printCodeInfo(release)
    /\ exitKind' = "os.Exit"
    /\ exitStatus' = 1
    /\ UNCHANGED <<pc, owner, repo, page, artifacts, received, net, artifactID,
                   body, bodyOpen, temp, zipOpen, idx, handles, defers, cwd,
                   cwd0, copyErr>>

ParseFlagsOk ==
    /\ Running /\ pc = "flags"
    /\ ~RequiredParametersMissing(owner, repo)
    /\ page' = 1
    /\ pc' = "list"
    /\ UNCHANGED <<owner, repo, artifacts, received, net, artifactID, body,
                   bodyOpen, temp, zipOpen, idx, handles, defers, cwd, cwd0,
                   copyErr, stderr, exitKind, exitStatus>>

----------------------------------------------------------------------------
(* Stage 2: artifact enumeration, main.go:62-76 *)

\* The next-page values a response to the request for page p may carry: 0
\* on the last page, else the following page; the model serves at most
\* MaxPages responses.
NextPages(p) ==
    IF Len(received) + 1 < MaxPages THEN {0, p + 1} ELSE {0}

ListArtifactsOk ==
    /\ Running /\ pc = "list"
    /\ \E pg \in Pages(Len(artifacts)), next \in NextPages(page) :
          /\ net' = Append(net, Call("ListArtifacts", page, TRUE))
          /\ received' = Append(received, [Artifacts |-> pg, NextPage |-> next])
          /\ artifacts' = AppendPage(artifacts, pg)
          /\ page' = next
          /\ pc' = IF next = 0 THEN "sort" ELSE "list"
    /\ UNCHANGED <<owner, repo, artifactID, body, bodyOpen, temp, zipOpen, idx,
                   handles, defers, cwd, cwd0, copyErr, stderr, exitKind,
                   exitStatus>>

\* A variant of ListArtifactsErr that reports the error and leaves the loop
\* with the pages received so far.
ListArtifactsErr_Continue ==
    /\ Running /\ pc = "list"
    /\ net' = Append(net, Call("ListArtifacts", page, FALSE))
    /\ stderr' = Append(stderr, Msg("unable to list artifacts", <<"error">>))
    /\ pc' = "sort"
    /\ UNCHANGED <<owner, repo, page, artifacts, received, artifactID, body,
                   bodyOpen, temp, zipOpen, idx, handles, defers, cwd, cwd0,
                   copyErr, exitKind, exitStatus>>

ListArtifactsErr ==
    /\ Running /\ pc = "list"
    /\ net' = Append(net, Call("ListArtifacts", page, FALSE))
    /\ Fatal("unable to list artifacts", "error")
    /\ UNCHANGED <<pc, owner, repo, page, artifacts, received, artifactID, body,
                   bodyOpen, temp, zipOpen, idx, handles, defers, cwd, cwd0,
                   copyErr>>

----------------------------------------------------------------------------
(* Stage 3: selection, main.go:78-85 *)

SortArtifacts ==
    /\ Running /\ pc = "sort"
    /\ artifacts' \in SortSlice(artifacts)
    /\ pc' = "select"
    /\ UNCHANGED <<owner, repo, page, received, net, artifactID, body, bodyOpen,
                   temp, zipOpen, idx, handles, defers, cwd, cwd0, copyErr,
                   stderr, exitKind, exitStatus>>

\* artifacts[0] of an empty slice: index out of range, the runtime panics
\* and the process exits with status 2.
SelectPanic ==
    /\ Running /\ pc = "select"
    /\ Len(artifacts) = 0
    /\ stderr' = Append(stderr, Msg("panic: runtime error: index out of range", <<>>))
    /\ exitKind' = "panic"
    /\ exitStatus' = 2
    /\ UNCHANGED <<pc, owner, repo, page, artifacts, received, net, artifactID,
                   body, bodyOpen, temp, zipOpen, idx, handles, defers, cwd,
                   cwd0, copyErr>>

SelectNewest ==
    /\ Running /\ pc = "select"
    /\ Len(artifacts) > 0
    /\ artifactID' = Newest(artifacts).id
    /\ pc' = "download"
    /\ UNCHANGED <<owner, repo, page, artifacts, received, net, body, bodyOpen,
                   temp, zipOpen, idx, handles, defers, cwd, cwd0, copyErr,
                   stderr, exitKind, exitStatus>>

----------------------------------------------------------------------------
(* Stage 4: archive retrieval, main.go:87-112 *)

DownloadArtifactOk ==
    /\ Running /\ pc = "download"
    /\ net' = Append(net, Call("DownloadArtifact", artifactID, TRUE))
    /\ pc' = "httpget"
    /\ UNCHANGED <<owner, repo, page, artifacts, received, artifactID, body,
                   bodyOpen, temp, zipOpen, idx, handles, defers, cwd, cwd0,
                   copyErr, stderr, exitKind, exitStatus>>

DownloadArtifactErr ==
    /\ Running /\ pc = "download"
    /\ net' = Append(net, Call("DownloadArtifact", artifactID, FALSE))
    /\ Fatal("unable to get download url", "error")
    /\ UNCHANGED <<pc, owner, repo, page, artifacts, received, artifactID, body,
                   bodyOpen, temp, zipOpen, idx, handles, defers, cwd, cwd0,
                   copyErr>>

\* http.Get succeeded: the body is a zip archive or something else (an error
\* page, a truncated transfer); defer resp.Body.Close().
HttpGetOk ==
    /\ Running /\ pc = "httpget"
    /\ net' = Append(net, Call("Get", artifactID, TRUE))
    /\ \/ body' = NoBody
       \/ \E f \in Archives : body' = [valid |-> TRUE, File |-> f]
    /\ bodyOpen' = TRUE
    /\ defers' = Append(defers, "resp.Body.Close")
    /\ pc' = "createtemp"
    /\ UNCHANGED <<owner, repo, page, artifacts, received, artifactID, temp,
                   zipOpen, idx, handles, cwd, cwd0, copyErr, stderr, exitKind,
                   exitStatus>>

HttpGetErr ==
    /\ Running /\ pc = "httpget"
    /\ net' = Append(net, Call("Get", artifactID, FALSE))
    /\ Fatal("unable to get artifact", "error")
    /\ UNCHANGED <<pc, owner, repo, page, artifacts, received, artifactID, body,
                   bodyOpen, temp, zipOpen, idx, handles, defers, cwd, cwd0,
                   copyErr>>

\* os.CreateTemp succeeded; defer func() { temp.Close(); os.RemoveAll(...) }().
CreateTempOk ==
    /\ Running /\ pc = "createtemp"
    /\ temp' = [exists |-> TRUE, open |-> TRUE, data |-> "empty"]
    /\ defers' = Append(defers, "temp.Remove")
    /\ pc' = "copy"
    /\ UNCHANGED <<owner, repo, page, artifacts, received, net, artifactID, body,
                   bodyOpen, zipOpen, idx, handles, cwd, cwd0, copyErr, stderr,
                   exitKind, exitStatus>>

CreateTempErr ==
    /\ Running /\ pc = "createtemp"
    /\ Fatal("unable to create temp file", "error")
    /\ UNCHANGED <<pc, owner, repo, page, artifacts, received, net, artifactID,
                   body, bodyOpen, temp, zipOpen, idx, handles, defers, cwd,
                   cwd0, copyErr>>

\* io.Copy(temp, resp.Body) succeeded, then temp.Close() (main.go:112).
CopyBodyOk ==
    /\ Running /\ pc = "copy"
    /\ temp' = [temp EXCEPT !.data = "full", !.open = FALSE]
    /\ pc' = "zipopen"
    /\ UNCHANGED <<owner, repo, page, artifacts, received, net, artifactID, body,
                   bodyOpen, zipOpen, idx, handles, defers, cwd, cwd0, copyErr,
                   stderr, exitKind, exitStatus>>

\* A variant of CopyBodyErr that discards the error of io.Copy.
CopyBodyErr_Ignored ==
    /\ Running /\ pc = "copy"
    /\ temp' = [temp EXCEPT !.data = "partial", !.open = FALSE]
    /\ pc' = "zipopen"
    /\ UNCHANGED <<owner, repo, page, artifacts, received, net, artifactID, body,
                   bodyOpen, zipOpen, idx, handles, defers, cwd, cwd0, copyErr,
                   stderr, exitKind, exitStatus>>

CopyBodyErr ==
    /\ Running /\ pc = "copy"
    /\ temp' = [temp EXCEPT !.data = "partial"]
    /\ Fatal("unable to copy response body to file", "error")
    /\ UNCHANGED <<pc, owner, repo, page, artifacts, received, net, artifactID,
                   body, bodyOpen, zipOpen, idx, handles, defers, cwd, cwd0,
                   copyErr>>

----------------------------------------------------------------------------
(* Stage 5: extraction, main.go:114-135 *)

\* zip.OpenReader succeeded; defer zipfile.Close().
ZipOpenOk ==
    /\ Running /\ pc = "zipopen"
    /\ body.valid
    /\ zipOpen' = TRUE
    /\ defers' = Append(defers, "zipfile.Close")
    /\ idx' = 1
    /\ pc' = "extract"
    /\ UNCHANGED <<owner, repo, page, artifacts, received, net, artifactID, body,
                   bodyOpen, temp, handles, cwd, cwd0, copyErr, stderr, exitKind,
                   exitStatus>>

\* zip.OpenReader failed: the file is not a zip archive, or it cannot be read.
ZipOpenErr ==
    /\ Running /\ pc = "zipopen"
    /\ \E d \in (IF body.valid THEN {"EIO"} ELSE {"zip: not a valid zip file"}) :
          Fatal("unable to open zip reader", d)
    /\ UNCHANGED <<pc, owner, repo, page, artifacts, received, net, artifactID,
                   body, bodyOpen, temp, zipOpen, idx, handles, defers, cwd,
                   cwd0, copyErr>>

\* The entry the loop of main.go:120 is at.
file == body.File[idx]

\* os.Create(name) fails when the directory of name does not exist.
CreateErrors(name) ==
    IF Dir(name) \in cwd.dirs THEN {"EACCES"} ELSE {"ENOENT"}

\* file.Open() failed.
ExtractOpenErr ==
    /\ Running /\ pc = "extract" /\ idx <= Len(body.File)
    /\ Fatal("unable to open src file", "EIO")
    /\ UNCHANGED <<pc, owner, repo, page, artifacts, received, net, artifactID,
                   body, bodyOpen, temp, zipOpen, idx, handles, defers, cwd,
                   cwd0, copyErr>>

\* file.Open() succeeded and was deferred-closed, os.Create(file.Name) failed.
ExtractCreateErr ==
    /\ Running /\ pc = "extract" /\ idx <= Len(body.File)
    /\ handles' = handles + 1
    /\ defers' = Append(defers, "src.Close")
    /\ \E d \in CreateErrors(file) : Fatal("unable to create dst file", d)
    /\ UNCHANGED <<pc, owner, repo, page, artifacts, received, net, artifactID,
                   body, bodyOpen, temp, zipOpen, idx, cwd, cwd0, copyErr>>

\* Both opened; io.Copy(dst, src) copied every byte.
ExtractCopyOk ==
    /\ Running /\ pc = "extract" /\ idx <= Len(body.File)
    /\ Dir(file) \in cwd.dirs
    /\ handles' = handles + 2
    /\ defers' = defers \o <<"src.Close", "dst.Close">>
    /\ cwd' = [cwd EXCEPT !.files[file] = ContentOf(file)]
    /\ idx' = idx + 1
    /\ UNCHANGED <<pc, owner, repo, page, artifacts, received, net, artifactID,
                   body, bodyOpen, temp, zipOpen, cwd0, copyErr, stderr,
                   exitKind, exitStatus>>

\* Both opened; io.Copy(dst, src) stopped with an error after n bytes; its
\* results are discarded (main.go:133) and the loop goes on.
ExtractCopyErr ==
    /\ Running /\ pc = "extract" /\ idx <= Len(body.File)
    /\ Dir(file) \in cwd.dirs
    /\ handles' = handles + 2
    /\ defers' = defers \o <<"src.Close", "dst.Close">>
    /\ \E n \in 0..(Len(ContentOf(file)) - 1) :
          cwd' = [cwd EXCEPT !.files[file] = SubSeq(ContentOf(file), 1, n)]
    /\ copyErr' = TRUE
    /\ idx' = idx + 1
    /\ UNCHANGED <<pc, owner, repo, page, artifacts, received, net, artifactID,
                   body, bodyOpen, temp, zipOpen, cwd0, stderr, exitKind,
                   exitStatus>>

\* main returns (main.go:135): the deferred calls run, the process exits 0.
Return ==
    /\ Running /\ pc = "extract" /\ idx > Len(body.File)
    /\ handles' = IF Deferred("src.Close") \/ Deferred("dst.Close") THEN 0 ELSE handles
    /\ zipOpen' = IF Deferred("zipfile.Close") THEN FALSE ELSE zipOpen
    /\ temp' = IF Deferred("temp.Remove")
                 THEN [temp EXCEPT !.exists = FALSE, !.open = FALSE]
                 ELSE temp
    /\ bodyOpen' = IF Deferred("resp.Body.Close") THEN FALSE ELSE bodyOpen
    /\ defers' = <<>>
    /\ exitKind' = "return"
    /\ exitStatus' = 0
    /\ UNCHANGED <<pc, owner, repo, page, artifacts, received, net, artifactID,
                   body, idx, cwd, cwd0, copyErr, stderr>>

----------------------------------------------------------------------------

Next ==
    \/ ParseFlagsMissing
    \/ ParseFlagsOk
    \/ ListArtifactsOk
    \/ ListArtifactsErr
    \/ SortArtifacts
    \/ SelectPanic
    \/ SelectNewest
    \/ DownloadArtifactOk
    \/ DownloadArtifactErr
    \/ HttpGetOk
    \/ HttpGetErr
    \/ CreateTempOk
    \/ CreateTempErr
    \/ CopyBodyOk
    \/ CopyBodyErr
    \/ ZipOpenOk
    \/ ZipOpenErr
    \/ ExtractOpenErr
    \/ ExtractCreateErr
    \/ ExtractCopyOk
    \/ ExtractCopyErr
    \/ Return

Spec == Init /\ [][Next]_vars

----------------------------------------------------------------------------
(* Properties *)

RECURSIVE Concat(_)
\* The artifacts of the responses rs, one page after the other.
Concat(rs) ==
    IF rs = <<>> THEN <<>>
    ELSE Concat(SubSeq(rs, 1, Len(rs) - 1)) \o rs[Len(rs)].Artifacts

\* The artifacts in enumeration order.
Listed == Concat(received)

\* The listing requests issued, in order.
ListRequests == SelectSeq(net, LAMBDA c : c.op = "ListArtifacts")

\* The selection has been made.
Selected == pc \notin {"flags", "list", "sort", "select"}

MaxCreatedAt(s) == CHOOSE t \in {a.createdAt : a \in Range(s)} :
                      \A a \in Range(s) : a.createdAt <= t

DistinctCreatedAt(s) ==
    \A i, j \in 1..Len(s) : s[i].createdAt = s[j].createdAt => i = j

TieAtMax(s) ==
    /\ s # <<>>
    /\ Cardinality({i \in 1..Len(s) : s[i].createdAt = MaxCreatedAt(s)}) >= 2

FirstWithMax(s) ==
    s[CHOOSE i \in 1..Len(s) :
         /\ s[i].createdAt = MaxCreatedAt(s)
         /\ \A j \in 1..(i - 1) : s[j].createdAt # MaxCreatedAt(s)]

\* The stage of the pipeline a position of main belongs to.
Stage(p) ==
    CASE p = "flags" -> 1
      [] p = "list" -> 2
      [] p \in {"sort", "select"} -> 3
      [] p \in {"download", "httpget", "createtemp", "copy"} -> 4
      [] p \in {"zipopen", "extract"} -> 5

\* C1: when the owner flag, the repo flag or both are empty, the process
\* does not leave parameter resolution, exits with status 1 and issues no
\* network request.
C1_MissingParametersExit1NoNetwork ==
    (owner = "" \/ repo = "") =>
        /\ pc = "flags"
        /\ net = <<>>
        /\ ~Running => (exitKind = "os.Exit" /\ exitStatus = 1)

C1_Witness_RepoMissingExited ==
    owner # "" /\ repo = "" /\ exitStatus = 1 /\ net = <<>>

\* C2: when the enumeration loop exits, artifacts is the concatenation of
\* the pages of all responses in receipt order; only the last response has
\* NextPage = 0; the first request is for page 1 and each later one for the
\* NextPage of the response before it.
C2_EnumerationIsConcatenation ==
    pc = "sort" =>
        /\ artifacts = Listed
        /\ Len(received) >= 1
        /\ \A i \in 1..Len(received) :
              (received[i].NextPage = 0) <=> (i = Len(received))
        /\ Len(ListRequests) = Len(received)
        /\ ListRequests[1].arg = 1
        /\ \A i \in 2..Len(ListRequests) :
              ListRequests[i].arg = received[i - 1].NextPage

C2_Witness_TwoNonEmptyPages ==
    /\ pc = "sort"
    /\ Len(received) = 2
    /\ Len(received[1].Artifacts) >= 1
    /\ Len(received[2].Artifacts) >= 1

\* C3: when the enumerated artifacts have pairwise distinct creation
\* timestamps, the selected artifact, whose ID every DownloadArtifact
\* request carries, is the one with the maximum creation timestamp,
\* whatever the enumeration order.
C3_NewestSelected ==
    (Selected /\ DistinctCreatedAt(Listed)) =>
        /\ Listed # <<>>
        /\ \E a \in Range(Listed) :
              /\ a.id = artifactID
              /\ a.createdAt = MaxCreatedAt(Listed)
        /\ \A i \in 1..Len(net) :
              net[i].op = "DownloadArtifact" => net[i].arg = artifactID

C3_Witness_NewestEnumeratedLast ==
    /\ pc = "httpget"
    /\ Len(Listed) >= 3
    /\ DistinctCreatedAt(Listed)
    /\ Listed[Len(Listed)].createdAt = MaxCreatedAt(Listed)
    /\ artifactID = Listed[Len(Listed)].id

C5_EmptyCollectionReported ==
    (pc \in {"sort", "select"} /\ Len(artifacts) = 0) => exitKind # "panic"

\* C6: once a listing request has failed, the process has exited with a
\* non-zero status at the enumeration stage: the failed request is the last
\* network request, nothing was selected, downloaded, stored or extracted.
C6_ListingFailureAborts ==
    \A i \in 1..Len(net) :
        (net[i].op = "ListArtifacts" /\ ~net[i].ok) =>
            /\ i = Len(net)
            /\ pc = "list"
            /\ exitKind = "os.Exit"
            /\ exitStatus = 1
            /\ artifactID = 0
            /\ artifacts = Listed
            /\ body = NoBody
            /\ temp = NoTemp
            /\ cwd = cwd0

C6_Witness_SecondPageFailed ==
    /\ Len(net) = 2
    /\ ~net[2].ok
    /\ Len(received) = 1
    /\ Len(artifacts) >= 1
    /\ exitStatus = 1

\* C7: in every terminal state reached after the temporary file was
\* created, the temporary file no longer exists and the response body is
\* closed.
C7_TempRemovedOnEveryExit ==
    (~Running /\ temp.data # "none") => (~temp.exists /\ ~bodyOpen)

\* An operation failed for a reason of the environment (I/O, permissions).
EnvironmentFault ==
    \/ copyErr
    \/ \E i \in 1..Len(stderr) : stderr[i].detail \in {<<"EIO">>, <<"EACCES">>}

\* C8: extraction of an archive with an entry under a directory, into a
\* working directory without that directory, ends successfully with a
\* byte-identical file at every entry's stored path.
C8_ExtractionRoundTrip ==
    ( /\ ~Running
      /\ pc = "extract"
      /\ ~EnvironmentFault
      /\ cwd0.dirs = {<<>>}
      /\ \E i \in 1..Len(body.File) : Len(body.File[i]) > 1 )
    => /\ exitStatus = 0
       /\ \A i \in 1..Len(body.File) :
             cwd.files[body.File[i]] = ContentOf(body.File[i])

\* C9: the process exits with status 0 only if every operation of the run
\* succeeded, the byte copy of every archive entry included.
C9_ExitZeroOnlyIfAllSucceeded ==
    exitStatus = 0 =>
        /\ ~copyErr
        /\ \A i \in 1..Len(body.File) :
              cwd.files[body.File[i]] = ContentOf(body.File[i])

====
